---- MODULE Spec2Model ----
(***************************************************************************)
(* A model of cloneobj.py: the Connection, DBObject and Cloner classes.    *)
(* Text (DDL, SQL statements) is a sequence of tokens: words, blanks,      *)
(* quotes and newlines are one token each.                                 *)
(***************************************************************************)
EXTENDS Integers, Sequences, FiniteSets, TLC

\* ------------------------------------------------------------ bounds ----
MaxRows == 250      \* most rows the source cursor yields in one clone()
MaxCols == 2        \* most columns in the result of the selection query
MaxMatches == 2     \* most rows the catalog lookup of object_exists returns
MaxSegs == 3        \* most segments after the column list of a DDL text

\* --------------------------------------------------- program constants --
BULK_ROWS == 100

\* Python's None; no identifier of the model is spelled like this.
None == "<None>"
\* None where the model holds a text (Cloner.select before it is set).
NoText == <<>>

\* ------------------------------------------------------------ strings ---
\* str.lower() on the identifiers the model uses.
Lower(s) ==
  CASE s = "A" -> "a"
    [] s = "B" -> "b"
    [] s = "T" -> "t"
    [] s = "U" -> "u"
    [] OTHER -> s

\* str.upper() on the identifiers the model uses.
Upper(s) ==
  CASE s = "a" -> "A"
    [] s = "b" -> "B"
    [] s = "t" -> "T"
    [] s = "u" -> "U"
    [] OTHER -> s

\* ------------------------------------------------------------ DBObject --
DEFAULT_OPTS == [tablespace |-> None, truncate |-> FALSE, create_if_not_exists |-> FALSE]

\* The opts argument left out (opts=None, not a dict).
NoOpts == <<>>

\* dict(self.opts.items() + opts.items()): the caller's value wins for a key
\* it gives, the default stays for the others. opts is a function whose
\* domain is a subset of the option names.
MergeOpts(opts) ==
  [k \in DOMAIN DEFAULT_OPTS |-> IF k \in DOMAIN opts THEN opts[k] ELSE DEFAULT_OPTS[k]]

\* DBObject.__init__(name, owner, type, opts)
DBObject(name, owner, type, opts) ==
  [owner |-> IF owner # None THEN Lower(owner) ELSE None,
   name  |-> IF name # None THEN Lower(name) ELSE None,
   type  |-> type,
   opts  |-> IF opts = NoOpts THEN DEFAULT_OPTS ELSE MergeOpts(opts)]

\* ---------------------------------------------------------- Connection --
\* Connection.__init__: no driver connection, no cursor, inactive.
\* open_conns / open_cursors count the driver objects this endpoint has
\* opened and not closed.
Connection(connection_string) ==
  [connection_string |-> connection_string, active |-> FALSE,
   open_conns |-> 0, open_cursors |-> 0]

\* Connection.connect opening a connection whether or not one is active.
ConnectionConnect_Unguarded(c) ==
  [c EXCEPT !.active = TRUE, !.open_conns = @ + 1, !.open_cursors = @ + 1]

\* Connection.connect
ConnectionConnect(c) ==
  IF ~c.active
  THEN [c EXCEPT !.active = TRUE, !.open_conns = @ + 1, !.open_cursors = @ + 1]
  ELSE c

\* Connection.close
ConnectionClose(c) ==
  IF c.active
  THEN [c EXCEPT !.active = FALSE, !.open_conns = @ - 1, !.open_cursors = @ - 1]
  ELSE c

\* The account a connection string logs on as ('user/pass@db'): the value of
\* the SQL function user in a session opened with it.
SessionUser(connection_string) ==
  CASE connection_string = "a/pw@db1" -> "A"
    [] connection_string = "b/pw@db2" -> "B"
    [] OTHER -> "A"

\* ---------------------------------------------------------------- text --
Q == "\""          \* the double quote character
NL == "\n"         \* the newline character
SP == " "

\* Does pat occur in text at position p?
MatchAt(text, pat, p) ==
  /\ p + Len(pat) - 1 <= Len(text)
  /\ \A k \in 1..Len(pat) : text[p + k - 1] = pat[k]

\* str.replace(old, new): every non-overlapping occurrence, left to right.
RECURSIVE StrReplace(_, _, _)
StrReplace(text, old, new) ==
  IF text = <<>> THEN <<>>
  ELSE IF MatchAt(text, old, 1)
       THEN new \o StrReplace(SubSeq(text, Len(old) + 1, Len(text)), old, new)
       ELSE <<Head(text)>> \o StrReplace(Tail(text), old, new)

\* How many non-overlapping occurrences of pat text holds (str.count).
RECURSIVE StrCount(_, _)
StrCount(text, pat) ==
  IF text = <<>> THEN 0
  ELSE IF MatchAt(text, pat, 1)
       THEN 1 + StrCount(SubSeq(text, Len(pat) + 1, Len(text)), pat)
       ELSE StrCount(Tail(text), pat)

\* The positions where a match of  TABLESPACE ".*"  starting at 1 may end:
\* a quote at q with no newline between the opening quote and q.
TsMatchEnds(text) ==
  IF Len(text) >= 4 /\ text[1] = "TABLESPACE" /\ text[2] = SP /\ text[3] = Q
  THEN {q \in 4..Len(text) : text[q] = Q /\ \A k \in 4..(q - 1) : text[k] # NL}
  ELSE {}

\* The end of the match of  TABLESPACE ".*"  at position 1: .* is greedy, so
\* the match runs to the last quote of the line.
TsMatchEnd(text) == CHOOSE q \in TsMatchEnds(text) : \A r \in TsMatchEnds(text) : r <= q

\* re.compile('TABLESPACE ".*"').sub(repl, text)
RECURSIVE TsSub(_, _)
TsSub(repl, text) ==
  IF text = <<>> THEN <<>>
  ELSE IF TsMatchEnds(text) # {}
       THEN repl \o TsSub(repl, SubSeq(text, TsMatchEnd(text) + 1, Len(text)))
       ELSE <<Head(text)>> \o TsSub(repl, Tail(text))

\* ' {} "{}"."{}"'.format(type, owner, name)
QualifiedForm(type, owner, name) == <<SP, type, SP, Q, owner, Q, ".", Q, name, Q>>

\* ' {} "{}"'.format(type, name)
UnqualifiedForm(type, name) == <<SP, type, SP, Q, name, Q>>

\* 'TABLESPACE "{}"'.format(tablespace)
TsClause(tablespace) == <<"TABLESPACE", SP, Q, tablespace, Q>>

\* Connection.ddl_target(ddl, from_obj, to_obj)
ddl_target(ddl, f_obj, t_obj) ==
  LET renamed == StrReplace(ddl,
                   QualifiedForm(f_obj.type, Upper(f_obj.owner), Upper(f_obj.name)),
                   UnqualifiedForm(t_obj.type, Upper(t_obj.name)))
      tablespace == t_obj.opts.tablespace
  IN TsSub(IF tablespace # None THEN TsClause(tablespace) ELSE <<>>, renamed)

\* --------------------------------------------------------------- state --
VARIABLES
  from_db, to_db,       \* the two Connection objects
  from_obj, to_obj,     \* the two DBObject objects
  given,                \* the two DBObject objects as the caller built them
  select,               \* Cloner.select: NoText (None) or the text of a query
  pc,                   \* where the caller / clone() stands
  err,                  \* the exception that left the constructor or clone()
  idq,                  \* did the last Cloner.connect() query the session user
  trace,                \* the driver calls clone() has made, in order
  from_ddl, to_ddl,     \* clone(): the DDL fetched and the DDL translated
  ncols,                \* clone(): len(self.from_db.cursor.description)
  nread,                \* clone(): rows the source cursor has yielded
  rows, i, total_rows,  \* clone(): the loop's batch, counter and running total
  submitted,            \* the batches handed to executemany, in order
  returned,             \* the values bulk_insert returned, in order
  printed,              \* the totals of the 'rows processed' lines, in order
  commits               \* calls of conn.commit() on the target

vars == <<from_db, to_db, from_obj, to_obj, given, select, pc, err, idq, trace, from_ddl,
          to_ddl, ncols, nread, rows, i, total_rows, submitted, returned, printed,
          commits>>

db_vars == <<from_db, to_db>>
obj_vars == <<from_obj, to_obj>>
clone_vars == <<trace, from_ddl, to_ddl, ncols, nread, rows, i, total_rows,
                submitted, returned, printed, commits>>

NoError == [kind |-> "", at |-> ""]

\* The messages of the exceptions the code raises itself.
ErrType == "Currently only tables are supported"
ErrName == "Specify object name for source object"
ErrSame == "Objects are the same"
ErrCreate == "Create object"
\* An exception of the driver (cx_Oracle.DatabaseError and the like).
ErrDriver == "DatabaseError"

\* The state of clone()'s locals before clone() has run.
CloneLocalsInit ==
  /\ trace = <<>>
  /\ from_ddl = <<>>
  /\ to_ddl = <<>>
  /\ ncols = 0
  /\ nread = 0
  /\ rows = <<>>
  /\ i = 0
  /\ total_rows = 0
  /\ submitted = <<>>
  /\ returned = <<>>
  /\ printed = <<>>
  /\ commits = 0

ConnStrings == {"a/pw@db1", "b/pw@db2"}
TypeInputs == {"TABLE", "VIEW", "table"}
OwnerInputs == {None, "A", "a", "b"}
NameInputs == {None, "T", "t", "u"}

\* The callers' opts dictionaries: every choice of tablespace, truncate
\* and create_if_not_exists, a key being left out where the default is meant.
OptsInputs ==
  { [k \in D |-> CASE k = "tablespace" -> "Y" [] OTHER -> TRUE] :
      D \in SUBSET {"tablespace", "truncate", "create_if_not_exists"} }

\* After  Connection(..), Connection(..), DBObject(..), DBObject(..)  and
\* before  Cloner(..) : any descriptors, on any pair of connection strings.
InitCtor ==
  /\ \E a \in ConnStrings, b \in ConnStrings :
        from_db = Connection(a) /\ to_db = Connection(b)
  /\ \E n \in NameInputs, o \in OwnerInputs, t \in TypeInputs :
        from_obj = DBObject(n, o, t, NoOpts)
  /\ \E n \in NameInputs, o \in OwnerInputs, t \in TypeInputs :
        to_obj = DBObject(n, o, t, NoOpts)
  /\ given = [from_obj |-> from_obj, to_obj |-> to_obj]
  /\ select = NoText
  /\ pc = "new"
  /\ err = NoError
  /\ idq = [from |-> FALSE, to |-> FALSE]
  /\ CloneLocalsInit

\* As main() sets the objects up: a named source table and a named target on
\* another connection string, with any options and its owner left out.
Init ==
  /\ from_db = Connection("a/pw@db1")
  /\ to_db = Connection("b/pw@db2")
  /\ from_obj = DBObject("T", "A", "TABLE", NoOpts)
  /\ \E opts \in OptsInputs :
        to_obj = DBObject("U", None, "TABLE", opts)
  /\ given = [from_obj |-> from_obj, to_obj |-> to_obj]
  /\ select = NoText
  /\ pc = "new"
  /\ err = NoError
  /\ idq = [from |-> FALSE, to |-> FALSE]
  /\ CloneLocalsInit

\* ----------------------------------------------------- Cloner.__init__ --
\* Cloner.__init__ comparing the target's name as given, before the defaulting.
CtorError_NoDefault(f_db, t_db, f_obj, t_obj) ==
  IF f_obj.type # "TABLE" \/ t_obj.type # "TABLE" THEN "Currently only tables are supported"
  ELSE IF f_obj.name = None THEN "Specify object name for source object"
  ELSE IF /\ f_db.connection_string = t_db.connection_string
          /\ f_obj.name = t_obj.name
          /\ f_obj.owner = t_obj.owner
          /\ f_obj.type = t_obj.type
       THEN "Objects are the same"
  ELSE ""

\* Cloner.__init__ with the name check made before the type check.
CtorError_NameFirst(f_db, t_db, f_obj, t_obj) ==
  LET name == IF t_obj.name = None THEN f_obj.name ELSE t_obj.name
  IN IF f_obj.name = None THEN "Specify object name for source object"
     ELSE IF f_obj.type # "TABLE" \/ t_obj.type # "TABLE" THEN "Currently only tables are supported"
     ELSE IF /\ f_db.connection_string = t_db.connection_string
             /\ f_obj.name = name
             /\ f_obj.owner = t_obj.owner
             /\ f_obj.type = t_obj.type
          THEN "Objects are the same"
     ELSE ""

\* The exception Cloner.__init__ raises, "" if none; name is the target's
\* name after the defaulting.
CtorError(f_db, t_db, f_obj, t_obj) ==
  LET name == IF t_obj.name = None THEN f_obj.name ELSE t_obj.name
  IN IF f_obj.type # "TABLE" \/ t_obj.type # "TABLE" THEN ErrType
     ELSE IF f_obj.name = None THEN ErrName
     ELSE IF /\ f_db.connection_string = t_db.connection_string
             /\ f_obj.name = name
             /\ f_obj.owner = t_obj.owner
             /\ f_obj.type = t_obj.type
          THEN ErrSame
     ELSE ""

\* Cloner.__init__ opening the source connection once the checks passed.
Construct_Connects ==
  /\ pc = "new"
  /\ LET e == CtorError(from_db, to_db, from_obj, to_obj)
     IN /\ pc' = IF e = "" THEN "idle" ELSE "ctor_failed"
        /\ err' = [kind |-> e, at |-> IF e = "" THEN "" ELSE "__init__"]
        /\ to_obj' = IF e \in {ErrType, ErrName} \/ to_obj.name # None
                     THEN to_obj
                     ELSE [to_obj EXCEPT !.name = from_obj.name]
        /\ from_db' = IF e = "" THEN ConnectionConnect(from_db) ELSE from_db
  /\ UNCHANGED <<given, to_db, from_obj, select, idq, clone_vars>>

\* Cloner(from_db, to_db, from_obj, to_obj)
Construct ==
  /\ pc = "new"
  /\ LET e == CtorError(from_db, to_db, from_obj, to_obj)
     IN /\ pc' = IF e = "" THEN "idle" ELSE "ctor_failed"
        /\ err' = [kind |-> e, at |-> IF e = "" THEN "" ELSE "__init__"]
        \* the target's name is defaulted once the first two checks passed
        /\ to_obj' = IF e \in {ErrType, ErrName} \/ to_obj.name # None
                     THEN to_obj
                     ELSE [to_obj EXCEPT !.name = from_obj.name]
  /\ UNCHANGED <<given, db_vars, from_obj, select, idq, clone_vars>>

\* ------------------------------------------------------ Cloner.connect --
\* Cloner.set_owner taking the session user whether or not an owner is set.
set_owner_Always(obj, conn) ==
  [obj EXCEPT !.owner = Lower(SessionUser(conn.connection_string))]

\* Cloner.set_owner(obj, conn): the owner becomes the result of
\* 'select lower(user) from dual' when it is unset.
set_owner(obj, conn) ==
  IF obj.owner = None
  THEN [obj EXCEPT !.owner = Lower(SessionUser(conn.connection_string))]
  ELSE obj

\* The driver calls Cloner.connect() makes, in order: 1 from_db.connect,
\* 2 the user query on from_db, 3 to_db.connect, 4 the user query on to_db.
\* Step k is made only if the code's condition for it holds.
ConnectStepMade(k) ==
  CASE k = 1 -> ~from_db.active
    [] k = 2 -> from_obj.owner = None
    [] k = 3 -> ~to_db.active
    [] k = 4 -> to_obj.owner = None

\* Cloner.connect() where the driver raises in step fail (0: in none): the
\* steps before it take effect.
ConnectEffect(fail) ==
  LET upto == IF fail = 0 THEN 4 ELSE fail - 1
  IN /\ from_db' = IF upto >= 1 THEN ConnectionConnect(from_db) ELSE from_db
     /\ from_obj' = IF upto >= 2 THEN set_owner(from_obj, from_db) ELSE from_obj
     /\ to_db' = IF upto >= 3 THEN ConnectionConnect(to_db) ELSE to_db
     /\ to_obj' = IF upto >= 4 THEN set_owner(to_obj, to_db) ELSE to_obj
     /\ idq' = [from |-> (fail = 0 \/ fail >= 2) /\ ConnectStepMade(2),
                to |-> (fail = 0 \/ fail >= 4) /\ ConnectStepMade(4)]

Finished == pc \in {"idle", "done", "failed"}

\* The caller calls cloner.connect(), before clone(), and it returns.
Connect ==
  /\ pc = "idle"
  /\ ConnectEffect(0)
  /\ UNCHANGED <<given, select, pc, err, clone_vars>>

\* The caller calls cloner.connect(), before clone(), and the driver raises.
ConnectFails ==
  /\ pc = "idle"
  /\ \E fail \in 1..4 : ConnectStepMade(fail) /\ ConnectEffect(fail)
  /\ UNCHANGED <<given, select, pc, err, clone_vars>>

\* Cloner.close
Close ==
  /\ Finished
  /\ from_db' = ConnectionClose(from_db)
  /\ to_db' = ConnectionClose(to_db)
  /\ UNCHANGED <<given, obj_vars, select, pc, err, idq, clone_vars>>

\* -------------------------------------------------------- Cloner.clone --
\* One driver call of clone(): on which endpoint, which call, the statement
\* text, a number (matches found / rows given) and whether it returned.
Call(db, what, stmt, n, ok) == [db |-> db, what |-> what, stmt |-> stmt, n |-> n, ok |-> ok]

\* The column list and the closing of every DDL text of the model.
DdlColumns == <<SP, "(", Q, "C", Q, SP, "NUMBER", ")">>

\* What may follow the column list: a tablespace clause, a LOB clause with a
\* quoted name, a newline or a word.
DdlSegments ==
  { <<SP>> \o TsClause("X"), <<SP, "LOB", SP, "(", Q, "C", Q, ")">>, <<NL>>, <<SP, "NOLOGGING">> }

\* The concatenations of at most n segments.
RECURSIVE DdlTails(_)
DdlTails(n) ==
  IF n = 0 THEN {<<>>}
  ELSE LET shorter == DdlTails(n - 1)
       IN shorter \cup {t \o seg : t \in shorter, seg \in DdlSegments}

\* dbms_metadata.get_ddl renders owner and name upper-cased and quoted.
DdlText(type, owner, name, tail) ==
  <<"CREATE">> \o QualifiedForm(type, owner, name) \o DdlColumns \o tail

\* The texts Connection.ddl(obj) may return in clone().
CatalogDdls(obj) ==
  { DdlText(obj.type, Upper(obj.owner), Upper(obj.name), tail) :
      tail \in { <<SP>> \o TsClause("X"),
                 <<SP>> \o TsClause("X") \o <<NL, SP, "LOB", SP, "(", Q, "C", Q, ")", SP>> \o TsClause("X") } }

\* 'SELECT * FROM {}.{}'.format(owner, name)
DefaultSelect(obj) == <<"SELECT * FROM", SP, obj.owner, ".", obj.name>>

\* A query the caller assigns to cloner.select.
CustomSelect == <<"SELECT table_name, owner FROM all_tables">>

\* 'TRUNCATE {} {}.{}'.format(type, owner, name)
TruncateStmt(obj) == <<"TRUNCATE", SP, obj.type, SP, obj.owner, ".", obj.name>>

\* ', '.join([':{!s}'.format(x) for x in range(n)])
RECURSIVE Placeholders(_)
Placeholders(n) ==
  IF n = 0 THEN <<>>
  ELSE IF n = 1 THEN <<":" \o ToString(0)>>
  ELSE Placeholders(n - 1) \o <<", ", ":" \o ToString(n - 1)>>

\* 'INSERT INTO {}.{} VALUES({})'.format(owner, name, placeholders)
InsertStmt(obj, n) ==
  <<"INSERT INTO", SP, obj.owner, ".", obj.name, SP, "VALUES(">> \o Placeholders(n) \o <<")">>

\* The k-th row the source cursor yields.
Row(k) == k

\* cursor.rowcount after executemany(None, batch)
RowCount(batch) == Len(batch)

Fail(at) ==
  /\ pc' = "failed"
  /\ err' = [kind |-> ErrDriver, at |-> at]

\* The caller assigns cloner.select before clone().
SetSelect ==
  /\ pc = "idle"
  /\ select = NoText
  /\ select' = CustomSelect
  /\ UNCHANGED <<given, db_vars, obj_vars, pc, err, idq, clone_vars>>

\* clone(): self.connect()
CloneConnect ==
  /\ pc = "idle"
  /\ \/ ConnectEffect(0) /\ pc' = "exists" /\ UNCHANGED err
     \/ \E fail \in 1..4 : ConnectStepMade(fail) /\ ConnectEffect(fail) /\ Fail("connect")
  /\ UNCHANGED <<given, select, clone_vars>>

\* object_exists taking any match for the object (>= 1 instead of == 1).
object_exists_AnyMatch(matches) == matches >= 1

\* Connection.object_exists given the rows fetchall() returned
object_exists(matches) == matches = 1

\* The existence check with the branch on create_if_not_exists taken first.
CheckExists_CreateFirst ==
  /\ pc = "exists"
  /\ \/ \E m \in 0..MaxMatches :
          /\ trace' = Append(trace, Call("to", "exists", <<>>, m, TRUE))
          /\ IF to_obj.opts.create_if_not_exists
             THEN pc' = "ddl" /\ UNCHANGED err
             ELSE IF m = 1
                  THEN pc' = "truncate" /\ UNCHANGED err
                  ELSE pc' = "failed" /\ err' = [kind |-> "Create object", at |-> "exists"]
     \/ /\ trace' = Append(trace, Call("to", "exists", <<>>, 0, FALSE))
        /\ pc' = "failed" /\ err' = [kind |-> "DatabaseError", at |-> "exists"]
  /\ UNCHANGED <<given, db_vars, obj_vars, select, idq, from_ddl, to_ddl, ncols, nread, rows, i,
                 total_rows, submitted, returned, printed, commits>>

\* clone(): the existence check and the branch on it
CheckExists ==
  /\ pc = "exists"
  /\ \/ \E m \in 0..MaxMatches :
          /\ trace' = Append(trace, Call("to", "exists", <<>>, m, TRUE))
          /\ IF object_exists(m)
             THEN pc' = "truncate" /\ UNCHANGED err
             ELSE IF to_obj.opts.create_if_not_exists
                  THEN pc' = "ddl" /\ UNCHANGED err
                  ELSE pc' = "failed" /\ err' = [kind |-> ErrCreate, at |-> "exists"]
     \/ /\ trace' = Append(trace, Call("to", "exists", <<>>, 0, FALSE))
        /\ Fail("exists")
  /\ UNCHANGED <<given, db_vars, obj_vars, select, idq, from_ddl, to_ddl, ncols, nread, rows, i,
                 total_rows, submitted, returned, printed, commits>>

\* The DDL fetch copying all of the target's options onto the source.
FetchDdl_CopiesOpts ==
  /\ pc = "ddl"
  /\ from_obj' = [from_obj EXCEPT !.opts = to_obj.opts]
  /\ \/ \E d \in CatalogDdls(from_obj) :
          /\ from_ddl' = d
          /\ trace' = Append(trace, Call("from", "ddl", <<>>, 0, TRUE))
          /\ pc' = "create" /\ UNCHANGED err
     \/ /\ trace' = Append(trace, Call("from", "ddl", <<>>, 0, FALSE))
        /\ Fail("ddl")
        /\ UNCHANGED from_ddl
  /\ UNCHANGED <<given, db_vars, to_obj, select, idq, to_ddl, ncols, nread, rows, i,
                 total_rows, submitted, returned, printed, commits>>

\* clone(): the tablespace option is copied and the source's DDL fetched
FetchDdl ==
  /\ pc = "ddl"
  /\ from_obj' = [from_obj EXCEPT !.opts.tablespace = to_obj.opts.tablespace]
  /\ \/ \E d \in CatalogDdls(from_obj) :
          /\ from_ddl' = d
          /\ trace' = Append(trace, Call("from", "ddl", <<>>, 0, TRUE))
          /\ pc' = "create" /\ UNCHANGED err
     \/ /\ trace' = Append(trace, Call("from", "ddl", <<>>, 0, FALSE))
        /\ Fail("ddl")
        /\ UNCHANGED from_ddl
  /\ UNCHANGED <<given, db_vars, to_obj, select, idq, to_ddl, ncols, nread, rows, i,
                 total_rows, submitted, returned, printed, commits>>

\* The DDL executed at the target as fetched, without the translation.
ExecDdl_Untranslated ==
  /\ pc = "create"
  /\ to_ddl' = from_ddl
  /\ \/ /\ trace' = Append(trace, Call("to", "create", to_ddl', 0, TRUE))
        /\ pc' = "truncate" /\ UNCHANGED err
     \/ /\ trace' = Append(trace, Call("to", "create", to_ddl', 0, FALSE))
        /\ Fail("create")
  /\ UNCHANGED <<given, db_vars, obj_vars, select, idq, from_ddl, ncols, nread, rows, i,
                 total_rows, submitted, returned, printed, commits>>

\* clone(): the DDL is translated and executed at the target
ExecDdl ==
  /\ pc = "create"
  /\ to_ddl' = ddl_target(from_ddl, from_obj, to_obj)
  /\ \/ /\ trace' = Append(trace, Call("to", "create", to_ddl', 0, TRUE))
        /\ pc' = "truncate" /\ UNCHANGED err
     \/ /\ trace' = Append(trace, Call("to", "create", to_ddl', 0, FALSE))
        /\ Fail("create")
  /\ UNCHANGED <<given, db_vars, obj_vars, select, idq, from_ddl, ncols, nread, rows, i,
                 total_rows, submitted, returned, printed, commits>>

\* The target truncated whatever its truncate option says.
Truncate_Always ==
  /\ pc = "truncate"
  /\ select' = IF select = NoText THEN DefaultSelect(from_obj) ELSE select
  /\ \/ /\ trace' = Append(trace, Call("to", "truncate", TruncateStmt(to_obj), 0, TRUE))
        /\ pc' = "query" /\ UNCHANGED err
     \/ /\ trace' = Append(trace, Call("to", "truncate", TruncateStmt(to_obj), 0, FALSE))
        /\ Fail("truncate")
  /\ UNCHANGED <<given, db_vars, obj_vars, idq, from_ddl, to_ddl, ncols, nread, rows, i,
                 total_rows, submitted, returned, printed, commits>>

\* clone(): the selection query is settled, then the target truncated if asked
Truncate ==
  /\ pc = "truncate"
  /\ select' = IF select = NoText THEN DefaultSelect(from_obj) ELSE select
  /\ IF to_obj.opts.truncate
     THEN \/ /\ trace' = Append(trace, Call("to", "truncate", TruncateStmt(to_obj), 0, TRUE))
             /\ pc' = "query" /\ UNCHANGED err
          \/ /\ trace' = Append(trace, Call("to", "truncate", TruncateStmt(to_obj), 0, FALSE))
             /\ Fail("truncate")
     ELSE pc' = "query" /\ UNCHANGED <<err, trace>>
  /\ UNCHANGED <<given, db_vars, obj_vars, idq, from_ddl, to_ddl, ncols, nread, rows, i,
                 total_rows, submitted, returned, printed, commits>>

\* clone(): the selection query is executed at the source
ExecSelect ==
  /\ pc = "query"
  /\ \/ \E c \in 1..MaxCols :
          /\ ncols' = c
          /\ trace' = Append(trace, Call("from", "select", select, 0, TRUE))
          /\ pc' = "prepare" /\ UNCHANGED err
     \/ /\ trace' = Append(trace, Call("from", "select", select, 0, FALSE))
        /\ Fail("select")
        /\ UNCHANGED ncols
  /\ UNCHANGED <<given, db_vars, obj_vars, select, idq, from_ddl, to_ddl, nread, rows, i,
                 total_rows, submitted, returned, printed, commits>>

\* clone(): the insert is built and prepared at the target
Prepare ==
  /\ pc = "prepare"
  /\ \/ /\ trace' = Append(trace, Call("to", "prepare", InsertStmt(to_obj, ncols), 0, TRUE))
        /\ pc' = "loop" /\ UNCHANGED err
     \/ /\ trace' = Append(trace, Call("to", "prepare", InsertStmt(to_obj, ncols), 0, FALSE))
        /\ Fail("prepare")
  /\ UNCHANGED <<given, db_vars, obj_vars, select, idq, from_ddl, to_ddl, ncols, nread, rows, i,
                 total_rows, submitted, returned, printed, commits>>

\* bulk_insert(batch, total): the value it returns
BulkInsertReturn(batch) == IF batch # <<>> THEN RowCount(batch) ELSE 0

\* bulk_insert without the test for an empty batch.
BulkInsert_NoEmptyTest(batch, total) ==
  /\ returned' = Append(returned, RowCount(batch))
  /\ trace' = Append(trace, Call("to", "executemany", <<>>, Len(batch), TRUE))
  /\ submitted' = Append(submitted, batch)
  /\ printed' = Append(printed, total + RowCount(batch))

\* bulk_insert(batch, total) returning: a non-empty batch goes to executemany
\* and the running total is printed; an empty one only reports 0.
BulkInsert(batch, total) ==
  /\ returned' = Append(returned, BulkInsertReturn(batch))
  /\ IF batch # <<>>
     THEN /\ trace' = Append(trace, Call("to", "executemany", <<>>, Len(batch), TRUE))
          /\ submitted' = Append(submitted, batch)
          /\ printed' = Append(printed, total + RowCount(batch))
     ELSE UNCHANGED <<trace, submitted, printed>>

\* bulk_insert catching the driver's exception: the loop goes on.
BulkInsertFails_Swallowed(batch) ==
  /\ batch # <<>>
  /\ trace' = Append(trace, Call("to", "executemany", <<>>, Len(batch), FALSE))
  /\ UNCHANGED <<pc, err, submitted, printed, returned>>

\* bulk_insert(batch, total) where executemany raises
BulkInsertFails(batch) ==
  /\ batch # <<>>
  /\ trace' = Append(trace, Call("to", "executemany", <<>>, Len(batch), FALSE))
  /\ Fail("executemany")
  /\ UNCHANGED <<given, submitted, printed, returned>>

\* The loop putting the new row in front of the batch.
ReadRow_Prepends ==
  /\ pc = "loop"
  /\ nread < MaxRows
  /\ nread' = nread + 1
  /\ rows' = <<Row(nread + 1)>> \o rows
  /\ i' = i + 1
  /\ pc' = IF i' = BULK_ROWS THEN "flush" ELSE "loop"
  /\ UNCHANGED <<given, db_vars, obj_vars, select, err, idq, trace, from_ddl, to_ddl, ncols,
                 total_rows, submitted, returned, printed, commits>>

\* The loop submitting the batch one row late (i > BULK_ROWS).
ReadRow_OneLate ==
  /\ pc = "loop"
  /\ nread < MaxRows
  /\ nread' = nread + 1
  /\ rows' = Append(rows, Row(nread + 1))
  /\ i' = i + 1
  /\ pc' = IF i' > BULK_ROWS THEN "flush" ELSE "loop"
  /\ UNCHANGED <<given, db_vars, obj_vars, select, err, idq, trace, from_ddl, to_ddl, ncols,
                 total_rows, submitted, returned, printed, commits>>

\* clone(): the loop takes the next row of the source cursor
ReadRow ==
  /\ pc = "loop"
  /\ nread < MaxRows
  /\ nread' = nread + 1
  /\ rows' = Append(rows, Row(nread + 1))
  /\ i' = i + 1
  /\ pc' = IF i' = BULK_ROWS THEN "flush" ELSE "loop"
  /\ UNCHANGED <<given, db_vars, obj_vars, select, err, idq, trace, from_ddl, to_ddl, ncols,
                 total_rows, submitted, returned, printed, commits>>

\* clone(): the source cursor raises while the loop iterates it
ReadFails ==
  /\ pc = "loop"
  /\ Fail("fetch")
  /\ UNCHANGED <<given, db_vars, obj_vars, select, idq, clone_vars>>

\* clone(): the source cursor is exhausted and the loop ends
Exhausted ==
  /\ pc = "loop"
  /\ pc' = "final"
  /\ UNCHANGED <<given, db_vars, obj_vars, select, err, idq, clone_vars>>

\* The full batch submitted but not emptied.
Flush_KeepsRows ==
  /\ pc = "flush"
  /\ \/ /\ BulkInsert(rows, total_rows)
        /\ total_rows' = total_rows + BulkInsertReturn(rows)
        /\ i' = 0
        /\ UNCHANGED rows
        /\ pc' = "loop" /\ UNCHANGED err
     \/ /\ BulkInsertFails(rows)
        /\ UNCHANGED <<rows, i, total_rows>>
  /\ UNCHANGED <<given, db_vars, obj_vars, select, idq, from_ddl, to_ddl, ncols, nread, commits>>

\* The full batch submitted with the running total replaced, not added to
\* (the rows of the current step are logged instead of the total).
Flush_NoRunningTotal ==
  /\ pc = "flush"
  /\ \/ /\ BulkInsert(rows, total_rows)
        /\ total_rows' = BulkInsertReturn(rows)
        /\ i' = 0
        /\ rows' = <<>>
        /\ pc' = "loop" /\ UNCHANGED err
     \/ /\ BulkInsertFails(rows)
        /\ UNCHANGED <<rows, i, total_rows>>
  /\ UNCHANGED <<given, db_vars, obj_vars, select, idq, from_ddl, to_ddl, ncols, nread, commits>>

\* The full batch submitted and committed at once.
Flush_CommitEachBatch ==
  /\ pc = "flush"
  /\ \/ /\ returned' = Append(returned, BulkInsertReturn(rows))
        /\ trace' = trace \o <<Call("to", "executemany", <<>>, Len(rows), TRUE),
                                Call("to", "commit", <<>>, 0, TRUE)>>
        /\ submitted' = Append(submitted, rows)
        /\ printed' = Append(printed, total_rows + RowCount(rows))
        /\ commits' = commits + 1
        /\ total_rows' = total_rows + BulkInsertReturn(rows)
        /\ i' = 0
        /\ rows' = <<>>
        /\ pc' = "loop" /\ UNCHANGED err
     \/ /\ BulkInsertFails(rows)
        /\ UNCHANGED <<rows, i, total_rows, commits>>
  /\ UNCHANGED <<given, db_vars, obj_vars, select, idq, from_ddl, to_ddl, ncols, nread>>

\* clone(): the batch is full: it is submitted and reset
Flush ==
  /\ pc = "flush"
  /\ \/ /\ BulkInsert(rows, total_rows)
        /\ total_rows' = total_rows + BulkInsertReturn(rows)
        /\ i' = 0
        /\ rows' = <<>>
        /\ pc' = "loop" /\ UNCHANGED err
     \/ /\ BulkInsertFails(rows)
        /\ UNCHANGED <<rows, i, total_rows>>
  /\ UNCHANGED <<given, db_vars, obj_vars, select, idq, from_ddl, to_ddl, ncols, nread, commits>>

\* clone(): after the loop the remaining batch is submitted
Final ==
  /\ pc = "final"
  /\ \/ /\ BulkInsert(rows, total_rows)
        /\ pc' = "commit" /\ UNCHANGED err
     \/ BulkInsertFails(rows)
  /\ UNCHANGED <<given, db_vars, obj_vars, select, idq, from_ddl, to_ddl, ncols, nread, rows, i,
                 total_rows, commits>>

\* clone(): self.to_db.commit()
Commit ==
  /\ pc = "commit"
  /\ commits' = commits + 1
  /\ \/ /\ trace' = Append(trace, Call("to", "commit", <<>>, 0, TRUE))
        /\ pc' = "done" /\ UNCHANGED err
     \/ /\ trace' = Append(trace, Call("to", "commit", <<>>, 0, FALSE))
        /\ Fail("commit")
  /\ UNCHANGED <<given, db_vars, obj_vars, select, idq, from_ddl, to_ddl, ncols, nread, rows, i,
                 total_rows, submitted, returned, printed>>

Next ==
  \/ Construct
  \/ SetSelect
  \/ Connect
  \/ ConnectFails
  \/ Close
  \/ CloneConnect
  \/ CheckExists
  \/ FetchDdl
  \/ ExecDdl
  \/ Truncate
  \/ ExecSelect
  \/ Prepare
  \/ ReadRow
  \/ ReadFails
  \/ Exhausted
  \/ Flush
  \/ Final
  \/ Commit

Spec == Init /\ [][Next]_vars

NextCtor == Construct \/ Connect \/ ConnectFails \/ Close \/ CloneConnect

SpecCtor == InitCtor /\ [][NextCtor]_vars

\* ------------------------------------------- ddl_target on any DDL text --
\* Before ddl_target is called in clone(): the descriptors are those of a
\* constructed, connected Cloner and the DDL is any text the catalog may
\* render for the source object.
InitDdl ==
  /\ from_db = ConnectionConnect(Connection("a/pw@db1"))
  /\ to_db = ConnectionConnect(Connection("b/pw@db2"))
  /\ \E ts \in {{}, {"tablespace"}}, tsname \in {"X", "Y"}, n \in {"T", "U"} :
        /\ to_obj = DBObject(n, "B", "TABLE",
                       [k \in ts \cup {"create_if_not_exists"} |->
                          CASE k = "tablespace" -> tsname [] OTHER -> TRUE])
        /\ \E o \in {"A", "B"} :
             from_obj = [DBObject("T", o, "TABLE", NoOpts) EXCEPT
                           !.opts.tablespace = to_obj.opts.tablespace]
  /\ \E tail \in DdlTails(MaxSegs) :
        from_ddl = DdlText(from_obj.type, Upper(from_obj.owner), Upper(from_obj.name), tail)
  /\ given = [from_obj |-> DBObject("T", from_obj.owner, "TABLE", NoOpts), to_obj |-> to_obj]
  /\ select = NoText
  /\ pc = "create"
  /\ err = NoError
  /\ idq = [from |-> FALSE, to |-> FALSE]
  /\ trace = <<Call("to", "exists", <<>>, 0, TRUE), Call("from", "ddl", <<>>, 0, TRUE)>>
  /\ to_ddl = <<>>
  /\ ncols = 0
  /\ nread = 0
  /\ rows = <<>>
  /\ i = 0
  /\ total_rows = 0
  /\ submitted = <<>>
  /\ returned = <<>>
  /\ printed = <<>>
  /\ commits = 0

NextDdl == ExecDdl

SpecDdl == InitDdl /\ [][NextDdl]_vars

\* ================================================================ claims =
\* Source and target denote the same object: same connection string, owner,
\* name and type.
SameObject ==
  /\ from_db.connection_string = to_db.connection_string
  /\ from_obj.owner = to_obj.owner
  /\ from_obj.name = to_obj.name
  /\ from_obj.type = to_obj.type

OwnersResolved == from_obj.owner # None /\ to_obj.owner # None

\* C1: a Cloner that was constructed and whose owners connect() has resolved
\* never has source and target denoting the same object (construction fails
\* with 'Objects are the same' for every pair that resolves to one object).
C1_NeverSameObject == (pc = "idle" /\ OwnersResolved) => ~SameObject

\* The driver calls of clone() of one kind, in order.
CallsOf(what) == SelectSeq(trace, LAMBDA c : c.what = what)

\* The sizes of the batches handed to executemany, in order.
BatchSizes == [k \in 1..Len(CallsOf("executemany")) |-> CallsOf("executemany")[k].n]

\* floor(n/100) times 100, then n mod 100 if that is not zero.
ExpectedSizes(n) ==
  [k \in 1..(n \div 100) |-> 100] \o (IF n % 100 # 0 THEN <<n % 100>> ELSE <<>>)

\* C2: a successful clone() of N rows has submitted floor(N/100) batches of
\* 100 rows, then one of N mod 100 rows if that is not zero, and made exactly
\* one commit, after the last submission.
C2_BatchOrder ==
  pc = "done" =>
    /\ BatchSizes = ExpectedSizes(nread)
    /\ [k \in 1..Len(submitted) |-> Len(submitted[k])] = ExpectedSizes(nread)
    /\ Len(CallsOf("commit")) = 1
    /\ trace[Len(trace)].what = "commit"

C2_Witness == pc = "done" /\ nread = 250 /\ BatchSizes = <<100, 100, 50>>

RECURSIVE SumSeq(_)
SumSeq(q) == IF q = <<>> THEN 0 ELSE Head(q) + SumSeq(Tail(q))

\* C3: once the last batch of a clone() of N rows was submitted, the row
\* counts bulk_insert reported add up to N, and the last running total
\* printed (there is one iff N > 0) is N.
C3_BatchAccounting ==
  (pc \in {"commit", "done"} \/ (pc = "failed" /\ err.at = "commit")) =>
    /\ SumSeq(returned) = nread
    /\ (nread > 0) = (printed # <<>>)
    /\ printed # <<>> => printed[Len(printed)] = nread

C3_Witness == pc = "done" /\ nread = 200 /\ returned = <<100, 100, 0>>

\* The catalog lookup of clone() returned, and found the target / did not.
LookupDone == Len(trace) >= 1 /\ trace[1].what = "exists" /\ trace[1].ok
TargetExists == LookupDone /\ trace[1].n = 1
TargetAbsent == LookupDone /\ trace[1].n # 1

\* C4: when the lookup does not return exactly one match and
\* create_if_not_exists is false, clone() has failed with 'Create object'
\* and the lookup is the only driver call it made: no DDL, no truncate, no
\* select, no row read, no insert, no commit.
C4_MissingTargetFailsFirst ==
  (TargetAbsent /\ ~to_obj.opts.create_if_not_exists) =>
    /\ pc = "failed" /\ err.kind = ErrCreate
    /\ Len(trace) = 1
    /\ from_ddl = <<>> /\ to_ddl = <<>>
    /\ nread = 0 /\ rows = <<>>
    /\ submitted = <<>> /\ returned = <<>>
    /\ commits = 0

C4_Witness ==
  /\ TargetAbsent /\ trace[1].n = 2 /\ ~to_obj.opts.create_if_not_exists
  /\ to_obj.opts.truncate
  /\ pc = "failed"

\* C5: when the target is absent and create_if_not_exists is true, the call
\* after the lookup fetches the DDL at the source, the one after it executes
\* the translation of that DDL at the target, and every later call (truncate,
\* select, prepare, bulk insert, commit) comes after both and is no DDL call.
\* The third call is compared with ddl_target's result in the step that makes
\* it, and no later step rewrites it.
C5_CreateBeforeTransfer ==
  /\ []( (TargetAbsent /\ to_obj.opts.create_if_not_exists) =>
          /\ Len(trace) >= 2 => trace[2].db = "from" /\ trace[2].what = "ddl"
          /\ Len(trace) >= 3 =>
               /\ trace[2].ok
               /\ trace[3].db = "to" /\ trace[3].what = "create"
               /\ trace[3].stmt = to_ddl
          /\ \A k \in 4..Len(trace) :
               /\ trace[3].ok
               /\ trace[k].what \in {"truncate", "select", "prepare", "executemany", "commit"}
          /\ pc \in {"query", "prepare", "loop", "flush", "final", "commit", "done"} =>
               Len(CallsOf("create")) = 1 )
  /\ [][ /\ (pc = "create" /\ TargetAbsent /\ to_obj.opts.create_if_not_exists) =>
            /\ Len(trace) = 2
            /\ trace' = Append(trace, Call("to", "create", ddl_target(from_ddl, from_obj, to_obj),
                                           0, pc' = "truncate"))
            /\ to_ddl' = trace'[3].stmt
            /\ StrCount(to_ddl', QualifiedForm("TABLE", Upper(from_obj.owner), Upper(from_obj.name))) = 0
         /\ Len(trace) >= 3 => (trace'[3] = trace[3] /\ to_ddl' = to_ddl) ]_vars

C5_Witness ==
  /\ TargetAbsent /\ to_obj.opts.create_if_not_exists /\ to_obj.opts.truncate
  /\ pc = "done" /\ Len(submitted) >= 1
  /\ Len(CallsOf("create")) = 1

\* C6: when the lookup returns exactly one match clone() makes no DDL call,
\* whatever create_if_not_exists is (any other count sends it to the DDL
\* fetch or to the failure); with truncate unset and k <= 99 rows a
\* successful clone() made one bulk_insert of the k rows and one commit.
C6_ExistingTargetNoDdl ==
  /\ TargetExists =>
       /\ CallsOf("ddl") = <<>> /\ CallsOf("create") = <<>>
       /\ from_ddl = <<>> /\ to_ddl = <<>>
       /\ (pc = "done" /\ ~to_obj.opts.truncate /\ nread <= 99) =>
            /\ returned = <<nread>>
            /\ submitted = IF nread > 0 THEN <<[k \in 1..nread |-> Row(k)]>> ELSE <<>>
            /\ BatchSizes = IF nread > 0 THEN <<nread>> ELSE <<>>
            /\ Len(CallsOf("commit")) = 1 /\ commits = 1
            /\ Len(trace) = IF nread > 0 THEN 5 ELSE 4
  /\ (TargetAbsent /\ Len(trace) >= 2) => trace[2].what = "ddl"

C6_Witness ==
  /\ TargetExists /\ to_obj.opts.create_if_not_exists /\ ~to_obj.opts.truncate
  /\ pc = "done" /\ nread = 5 /\ BatchSizes = <<5>>

\* C7: clone() commits at most once; the commit is issued exactly when
\* every call before it returned and the stream was exhausted and its last
\* batch submitted, so it is the last call and never between batches; when
\* any call before it raises, clone() has failed with the driver's error and
\* no commit was issued.
C7_CommitOnceAtEnd ==
  /\ commits <= 1 /\ commits = Len(CallsOf("commit"))
  /\ commits = 1 <=> (pc = "done" \/ (pc = "failed" /\ err.at = "commit"))
  /\ commits = 1 =>
       /\ trace[Len(trace)].what = "commit"
       /\ \A k \in 1..(Len(trace) - 1) : trace[k].ok
       /\ SumSeq(BatchSizes) = nread
       /\ rows # <<>> => submitted # <<>> /\ rows = submitted[Len(submitted)]
  /\ (pc = "failed" /\ err.at \in {"exists", "ddl", "create", "truncate", "select", "prepare", "executemany"}) =>
       /\ err.kind \in {ErrDriver, ErrCreate}
       /\ commits = 0
       /\ err.kind = ErrDriver => ~trace[Len(trace)].ok /\ trace[Len(trace)].what = err.at

C7_Witness ==
  /\ pc = "failed" /\ err.at = "executemany" /\ Len(submitted) = 2 /\ Len(rows) = 50
  /\ commits = 0

\* The state after ddl_target ran in clone().
Translated == Len(trace) >= 3 /\ trace[3].what = "create"

\* The DDL with only the identifier rewritten.
Renamed ==
  StrReplace(from_ddl,
             QualifiedForm(from_obj.type, Upper(from_obj.owner), Upper(from_obj.name)),
             UnqualifiedForm(to_obj.type, Upper(to_obj.name)))

\* C8: for a DDL with two occurrences of TABLESPACE "X", wherever they are,
\* the translation with target tablespace "Y" has two occurrences of
\* TABLESPACE "Y", none of "X" and the other text unchanged; with the target
\* tablespace absent it has no TABLESPACE clause and the other text unchanged.
C8_EveryTablespaceRemapped ==
  (Translated /\ StrCount(from_ddl, TsClause("X")) = 2) =>
    /\ to_obj.opts.tablespace = "Y" =>
         /\ StrCount(to_ddl, TsClause("Y")) = 2
         /\ \A k \in 1..Len(to_ddl) : to_ddl[k] # "X"
         /\ to_ddl = StrReplace(Renamed, TsClause("X"), TsClause("Y"))
    /\ to_obj.opts.tablespace = None =>
         /\ \A k \in 1..Len(to_ddl) : to_ddl[k] # "TABLESPACE"
         /\ to_ddl = StrReplace(Renamed, TsClause("X"), <<>>)

\* C9: with the target tablespace equal to the DDL's own tablespace and the
\* target name equal to the source name, the translation is the DDL with
\* only <TYPE> "<OWNER>"."<NAME>" replaced by <TYPE> "<NAME>"; and
\* CREATE TABLE "A"."T" (..) TABLESPACE "X" with target tablespace "Y"
\* becomes CREATE TABLE "T" (..) TABLESPACE "Y".
C9_OnlyIdentifierChanges ==
  Translated =>
    /\ (to_obj.opts.tablespace = "X" /\ to_obj.name = from_obj.name) => to_ddl = Renamed
    /\ ( /\ to_obj.opts.tablespace = "Y" /\ to_obj.name = from_obj.name
          /\ from_ddl = DdlText("TABLE", Upper(from_obj.owner), "T", <<SP>> \o TsClause("X")) ) =>
         to_ddl = <<"CREATE">> \o UnqualifiedForm("TABLE", "T") \o DdlColumns \o <<SP>> \o TsClause("Y")

NotBothTables == from_obj.type # "TABLE" \/ to_obj.type # "TABLE"

\* C10: a constructed Cloner has two descriptors of type TABLE; when either
\* type is anything else the constructor has failed with 'Currently only
\* tables are supported', also when the source has no name or the two are
\* the same object, and it has not yet defaulted the target's name.
C10_OnlyTables ==
  /\ pc \notin {"new", "ctor_failed"} => ~NotBothTables
  /\ (pc # "new" /\ NotBothTables) => pc = "ctor_failed" /\ err = [kind |-> ErrType, at |-> "__init__"]
  /\ err.kind = ErrType => NotBothTables
  /\ (pc = "ctor_failed" /\ err.kind = ErrName) => from_obj.name = None

C10_Witness ==
  /\ pc = "ctor_failed" /\ err.kind = ErrType
  /\ from_obj.name = None /\ to_obj.name = None
  /\ from_obj.type = "TABLE" /\ to_obj.type = "table"

\* An endpoint with no driver connection and no cursor open.
Inert(c) == ~c.active /\ c.open_conns = 0 /\ c.open_cursors = 0

\* C11 as stated: every Cloner whose source has no name fails with 'Specify
\* object name for source object'.
C11_NamelessAlwaysMissingName ==
  (pc # "new" /\ given.from_obj.name = None) => (pc = "ctor_failed" /\ err.kind = ErrName)

\* C11: a Cloner whose source has no name and whose two descriptors are of
\* type TABLE fails with 'Specify object name for source object' (with
\* another type the type error comes first); a constructor that raised has
\* left both endpoints inert and clone() has made no driver call, and a
\* constructor step never changes an endpoint.
C11_FailFastNoConnection ==
  /\ [] /\ (pc # "new" /\ given.from_obj.name = None /\ ~(from_obj.type # "TABLE" \/ to_obj.type # "TABLE")) =>
              (pc = "ctor_failed" /\ err = [kind |-> ErrName, at |-> "__init__"])
        /\ (pc # "new" /\ given.from_obj.name = None) => pc = "ctor_failed"
        /\ pc \in {"new", "ctor_failed"} =>
              Inert(from_db) /\ Inert(to_db) /\ trace = <<>> /\ idq = [from |-> FALSE, to |-> FALSE]
  /\ [][pc = "new" => /\ from_db' = from_db /\ Inert(from_db')
                       /\ to_db' = to_db /\ Inert(to_db')
                       /\ trace' = <<>> /\ idq' = idq]_vars

C11_Witness ==
  /\ pc = "ctor_failed" /\ err.kind = ErrName
  /\ given.from_obj.name = None /\ given.to_obj.name # None
  /\ Inert(from_db) /\ Inert(to_db)

\* The descriptors as built denote one object once the target's unset name
\* is taken from the source.
SameAsGiven ==
  /\ from_db.connection_string = to_db.connection_string
  /\ given.from_obj.owner = given.to_obj.owner
  /\ given.from_obj.type = given.to_obj.type

\* C12: when the first two checks pass, a target built without a name has
\* the source's name from the constructor on, also when the constructor then
\* raises: such a target with the source's connection string, owner and type
\* is rejected with 'Objects are the same'; a constructed Cloner's target has
\* a name, and a name that was given is kept.
C12_TargetNameDefaulted ==
  (pc # "new" /\ ~(from_obj.type # "TABLE" \/ to_obj.type # "TABLE") /\ given.from_obj.name # None) =>
    /\ to_obj.name = IF given.to_obj.name = None THEN from_obj.name ELSE given.to_obj.name
    /\ to_obj.name # None
    /\ (given.to_obj.name = None /\ SameAsGiven) =>
         (pc = "ctor_failed" /\ err = [kind |-> ErrSame, at |-> "__init__"])
    /\ from_obj.name = given.from_obj.name

C12_Witness ==
  /\ pc = "ctor_failed" /\ err.kind = ErrSame
  /\ given.to_obj.name = None /\ to_obj.name = from_obj.name
  /\ given.to_obj.owner = None

\* The endpoint holds at most one connection and one cursor, both exactly
\* when it is active; connect() leaves an active endpoint as it is and
\* close() an inactive one.
OneConnection(c) ==
  /\ c.open_conns = (IF c.active THEN 1 ELSE 0)
  /\ c.open_cursors = (IF c.active THEN 1 ELSE 0)
  /\ c.active => ConnectionConnect(c) = c /\ ~ConnectionClose(c).active
  /\ ~c.active => ConnectionClose(c) = c /\ ConnectionConnect(c).active
  /\ ConnectionConnect(ConnectionConnect(c)) = ConnectionConnect(c)
  /\ ConnectionClose(ConnectionClose(c)) = ConnectionClose(c)

\* C13: after any sequence of connect() and close() calls each endpoint
\* holds at most one open connection and one cursor and is active iff the
\* last call that had an effect was a connect; a step that leaves an
\* endpoint's activity as it was changes nothing of the endpoint.
C13_IdempotentLifecycle ==
  /\ [](OneConnection(from_db) /\ OneConnection(to_db))
  /\ [][ /\ (from_db'.active = from_db.active) => (from_db' = from_db)
         /\ (to_db'.active = to_db.active) => (to_db' = to_db) ]_vars

C13_Witness ==
  /\ from_db.active /\ to_db.active
  /\ from_db.open_conns = 1 /\ to_db.open_conns = 1
  /\ given.from_obj.owner = None /\ given.to_obj.owner = None
  /\ idq = [from |-> FALSE, to |-> FALSE]

\* A step of Cloner.connect(), called by the caller or by clone().
ConnectStep == Connect \/ ConnectFails \/ CloneConnect

\* C14: an owner the caller supplied is never changed and never queried
\* for; an owner left unset is unset or the lower-cased session user of its
\* endpoint; a connect() that finds an owner set issues no identity query
\* for it and leaves the descriptor as it is, one that returns has resolved
\* an unset owner by a query.
C14_OwnerResolvedOnlyWhenUnset ==
  /\ [] /\ given.from_obj.owner # None => from_obj.owner = given.from_obj.owner /\ ~idq.from
        /\ given.to_obj.owner # None => to_obj.owner = given.to_obj.owner /\ ~idq.to
        /\ from_obj.owner \in {given.from_obj.owner, Lower(SessionUser(from_db.connection_string))}
        /\ to_obj.owner \in {given.to_obj.owner, Lower(SessionUser(to_db.connection_string))}
        /\ from_obj.owner = Lower(from_obj.owner) /\ to_obj.owner = Lower(to_obj.owner)
  /\ [][ConnectStep =>
          /\ from_obj.owner # None => from_obj' = from_obj /\ ~idq'.from
          /\ to_obj.owner # None => to_obj' = to_obj /\ ~idq'.to
          /\ (from_obj.owner = None /\ from_obj'.owner # None) => idq'.from
          /\ (to_obj.owner = None /\ to_obj'.owner # None) => idq'.to
          /\ (Connect \/ pc' = "exists") => from_obj'.owner # None /\ to_obj'.owner # None]_vars

C14_Witness ==
  /\ pc = "exists"
  /\ given.from_obj.owner = "b" /\ from_obj.owner = "b" /\ from_db.connection_string = "a/pw@db1"
  /\ given.to_obj.owner = None /\ to_obj.owner = "b" /\ to_db.connection_string = "b/pw@db2"
  /\ idq = [from |-> FALSE, to |-> FALSE]

\* The identity of a descriptor: owner, name and type.
Identity(obj) == <<obj.owner, obj.name, obj.type>>

\* C15: once both owners are resolved no step changes the owner, name or
\* type of either descriptor, nor anything of the target descriptor; the
\* only write to the source descriptor is the copy of the target's
\* tablespace option, made by the DDL fetch step, which is reached only
\* when the target is absent and create_if_not_exists is set.
C15_DescriptorsImmutable ==
  /\ [] /\ from_obj.opts # given.from_obj.opts =>
              /\ TargetAbsent /\ to_obj.opts.create_if_not_exists
              /\ from_obj.opts = [given.from_obj.opts EXCEPT !.tablespace = to_obj.opts.tablespace]
        /\ to_obj.opts = given.to_obj.opts
        /\ pc = "ddl" => (TargetAbsent /\ to_obj.opts.create_if_not_exists)
  /\ [][(pc # "new" /\ OwnersResolved) =>
          /\ Identity(from_obj') = Identity(from_obj)
          /\ to_obj' = to_obj
          /\ from_obj' # from_obj =>
               /\ pc = "ddl"
               /\ from_obj' = [from_obj EXCEPT !.opts.tablespace = to_obj.opts.tablespace]]_vars

C15_Witness ==
  /\ pc = "done" /\ TargetAbsent /\ to_obj.opts.truncate
  /\ given.from_obj.opts.tablespace = None /\ from_obj.opts.tablespace = "Y"
  /\ Identity(from_obj) = <<"a", "t", "TABLE">> /\ Identity(to_obj) = <<"b", "u", "TABLE">>

\* The position of the first call of a kind in the trace, 0 if none.
FirstCall(what) ==
  IF \E k \in 1..Len(trace) : trace[k].what = what
  THEN CHOOSE k \in 1..Len(trace) :
         trace[k].what = what /\ \A j \in 1..(k - 1) : trace[j].what # what
  ELSE 0

\* C16: the target is truncated only if its truncate option is set, at most
\* once, and exactly once by the time the selection query is executed; the
\* truncate comes after the lookup (and the DDL calls, if any) and before
\* the select; when it raises, clone() has failed with the driver's error
\* with no select made, no row read, no batch submitted and no commit.
C16_TruncateBeforeSelect ==
  /\ Len(CallsOf("truncate")) <= 1
  /\ CallsOf("truncate") # <<>> =>
       /\ to_obj.opts.truncate
       /\ trace[FirstCall("truncate")].stmt = TruncateStmt(to_obj)
       /\ \A k \in 1..(FirstCall("truncate") - 1) :
            trace[k].what \in {"exists", "ddl", "create"} /\ trace[k].ok
       /\ trace[1].what = "exists"
       /\ \A k \in (FirstCall("truncate") + 1)..Len(trace) :
            trace[k].what \in {"select", "prepare", "executemany", "commit"}
  /\ (to_obj.opts.truncate /\ CallsOf("select") # <<>>) =>
       /\ Len(CallsOf("truncate")) = 1
       /\ trace[FirstCall("select") - 1].what = "truncate"
       /\ trace[FirstCall("select") - 1].ok
  /\ (pc = "failed" /\ err.at = "truncate") =>
       /\ err.kind = ErrDriver
       /\ trace[Len(trace)] = Call("to", "truncate", TruncateStmt(to_obj), 0, FALSE)
       /\ CallsOf("select") = <<>>
       /\ nread = 0 /\ rows = <<>> /\ submitted = <<>> /\ returned = <<>> /\ commits = 0
  /\ (CallsOf("truncate") # <<>> /\ ~trace[FirstCall("truncate")].ok) =>
       (pc = "failed" /\ err.at = "truncate")

C16_Witness ==
  /\ pc = "failed" /\ err.at = "truncate"
  /\ TargetAbsent /\ Len(trace) = 4

\* C17: a bulk insert that raised is the last driver call of clone(), which
\* has failed with the driver's error: no retry, no later batch, no commit,
\* no rollback; the target holds the batches submitted before it, and from
\* then on no row is read and nothing is submitted or committed.
C17_FailedBatchEndsClone ==
  /\ [] \A k \in 1..Len(trace) :
          (trace[k].what = "executemany" /\ ~trace[k].ok) =>
            /\ k = Len(trace)
            /\ pc = "failed" /\ err = [kind |-> ErrDriver, at |-> "executemany"]
            /\ commits = 0
            /\ Len(submitted) = Len(CallsOf("executemany")) - 1
            /\ rows # <<>> /\ trace[k].n = Len(rows)
            /\ \A j \in 1..Len(submitted) : submitted[j] # rows
            /\ SumSeq([j \in 1..Len(submitted) |-> Len(submitted[j])]) + Len(rows) = nread
            /\ \A j \in 1..Len(trace) : trace[j].what # "rollback"
  /\ [][pc = "failed" =>
          UNCHANGED <<pc, err, trace, nread, rows, i, total_rows, submitted, returned, commits>>]_vars

C17_Witness ==
  /\ pc = "failed" /\ err.at = "executemany"
  /\ Len(submitted) = 1 /\ Len(rows) = 100 /\ nread = 200
  /\ ~from_db.active /\ ~to_db.active

\* C18: executemany is never called with an empty batch; when the source
\* yields 0 rows or a multiple of 100 the bulk_insert after the loop gets an
\* empty batch, reports 0 without a driver call, and the commit follows.
C18_NoEmptyExecutemany ==
  /\ \A k \in 1..Len(trace) : trace[k].what = "executemany" => trace[k].n > 0
  /\ \A k \in 1..Len(submitted) : submitted[k] # <<>>
  /\ (pc \in {"commit", "done"} /\ nread % 100 = 0) =>
       /\ rows = <<>>
       /\ returned[Len(returned)] = 0
       /\ Len(CallsOf("executemany")) = nread \div 100
       /\ Len(printed) = nread \div 100
  /\ (pc = "commit" /\ nread % 100 = 0) =>
       trace[Len(trace)].what = IF nread = 0 THEN "prepare" ELSE "executemany"
  /\ (pc = "done" /\ nread % 100 = 0) =>
       /\ commits = 1 /\ trace[Len(trace)].what = "commit"
       /\ trace[Len(trace) - 1].what = IF nread = 0 THEN "prepare" ELSE "executemany"

C18_Witness ==
  /\ pc = "done" /\ nread = 100 /\ returned = <<100, 0>>
  /\ commits = 1

\* C19: the batch never holds more than 100 rows and the counter i is its
\* length; a batch of 100 rows is waiting to be submitted (or its
\* submission raised), a row is read only into a batch of fewer than 100,
\* and the submission of the full batch empties it.
C19_BatchBounded ==
  /\ [] /\ Len(rows) <= 100 /\ i = Len(rows)
        /\ Len(rows) = 100 <=> (pc = "flush" \/ (pc = "failed" /\ err.at = "executemany" /\ trace[Len(trace)].n = 100))
  /\ [][ /\ nread' # nread =>
              /\ pc = "loop" /\ Len(rows) < 100
              /\ nread' = nread + 1 /\ rows' = Append(rows, Row(nread'))
         /\ (pc = "flush" /\ pc' = "loop") =>
              /\ rows' = <<>> /\ i' = 0
              /\ submitted' = Append(submitted, rows) /\ nread' = nread ]_vars

C19_Witness ==
  /\ pc = "flush" /\ Len(rows) = 100 /\ i = 100
  /\ nread = 200 /\ Len(submitted) = 1

\* The batches of a sequence one after the other.
RECURSIVE Concat(_)
Concat(qs) == IF qs = <<>> THEN <<>> ELSE Head(qs) \o Concat(Tail(qs))

\* The rows buffered and not yet submitted: after the loop's last
\* bulk_insert returned, the batch it was given is in submitted.
Buffered == IF Len(returned) > Len(CallsOf("executemany")) \/ pc \in {"commit", "done"}
                 \/ (pc = "failed" /\ err.at = "commit")
            THEN <<>> ELSE rows

\* C20: the batches submitted so far followed by the rows buffered are the
\* rows read so far, in the order read; after a successful clone() the
\* batches submitted are all the rows of the source.
C20_NoRowLostOrReordered ==
  /\ Concat(submitted) \o Buffered = [k \in 1..nread |-> Row(k)]
  /\ pc = "done" => Concat(submitted) = [k \in 1..nread |-> Row(k)]

C20_Witness ==
  /\ pc = "done" /\ nread = 150
  /\ Len(submitted) = 2 /\ submitted[2][50] = Row(150)

====
